---- MODULE Spec2Model ----
(***************************************************************************)
(* Filesystem commands of apps/desktop/src-tauri/src/lib.rs                *)
(* (read_directory, read_file_binary, write_file, write_file_binary,       *)
(* create_file, create_directory, rename_path, delete_path, move_path,     *)
(* copy_file, path_exists) over an explicit model of the filesystem.       *)
(*                                                                         *)
(* A file name is the sequence of its bytes (ASCII), a path is the         *)
(* sequence of the names of its components below the root, and the         *)
(* filesystem maps every existing path to its entry.  Symbolic links,      *)
(* "." and ".." components and modification times are not modelled.        *)
(***************************************************************************)
EXTENDS Integers, Sequences, FiniteSets, TLC

(***************************************************************************)
(* Bounds of the model.                                                    *)
(***************************************************************************)
\* longest path (in components) the modelled filesystem accepts; a longer
\* one is refused by the OS calls (ENAMETOOLONG)
MaxDepth == 3
\* the commands are explored from filesystems with at most this many entries
\* below the root
MaxEntries == 2
\* the same for the specification of copies (SpecCopy)
MaxCopyEntries == 3
\* the same for the specification without copies (SpecTree)
MaxTreeEntries == 3
\* the commands are explored as long as no name grows (by repeated
\* " (copy)" suffixes) beyond this many bytes
MaxNameLen == 14
\* longest byte sequence written by write_file_binary
MaxBytes == 4
\* write_file_binary and read_file_binary are explored from filesystems with
\* at most this many entries below the root (SpecBinary)
MaxBinaryEntries == 1
\* copies under I/O failures are explored from filesystems with at most this
\* many entries below the root (SpecFaulty), with a failure after at most
\* MaxIoCalls filesystem calls of the command
MaxFaultyEntries == 3
MaxIoCalls == 6
\* number of copy_file calls that run concurrently (SpecRace)
MaxCallers == 2

(***************************************************************************)
(* Names and file contents the commands are called with.                   *)
(***************************************************************************)
\* "A.txt"
NameA == <<65, 46, 116, 120, 116>>
\* "D"
NameD == <<68>>
\* "a.b"
NameAB == <<97, 46, 98>>

\* the names new paths are made of: all of them, and those used where
\* copy_file adds its " (copy)" names to them
BaseNames == {NameA, NameD, NameAB}
CopyNames == {NameA, NameD}

\* byte contents written by write_file
Contents == {<<7>>, <<8, 9>>}

\* the bytes binary contents are made of, and the contents of at most n bytes
ByteValues == {77, 255}
ByteSeqs(n) == UNION {[1..k -> ByteValues] : k \in 0..n}

\* strings that are not canonical base64: "A", "AB==" (dropped bits not
\* zero), "AA=A" (padding inside a group), "A?AA" (a byte outside the alphabet)
BadData == {<<65>>, <<65, 66, 61, 61>>, <<65, 65, 61, 65>>, <<65, 63, 65, 65>>}

(***************************************************************************)
(* std::path::Path                                                         *)
(***************************************************************************)
Root == <<>>

\* Path::parent: None (modelled as the empty option <<>>) for the root
Parent(p) == IF p = Root THEN <<>> ELSE <<SubSeq(p, 1, Len(p) - 1)>>

\* Path::file_name: None for the root
FileName(p) == IF p = Root THEN <<>> ELSE <<p[Len(p)]>>

\* Path::join with a single normal component
Join(p, n) == Append(p, n)

\* p is q or an ancestor of q
IsPrefix(p, q) == Len(p) <= Len(q) /\ SubSeq(q, 1, Len(p)) = p

\* index of the last '.' (byte 46) of a name, 0 if there is none
LastDot(n) ==
    IF \E i \in 1..Len(n) : n[i] = 46
    THEN CHOOSE i \in 1..Len(n) : n[i] = 46 /\ \A j \in (i+1)..Len(n) : n[j] # 46
    ELSE 0

\* std's rsplit_file_at_dot, as <<before, after>> options: ".." and a name
\* whose only dot is its first byte have no "before"
SplitAtDot(n) ==
    LET d == LastDot(n) IN
    IF n = <<46, 46>> \/ d = 0 \/ d = 1
    THEN [before |-> <<>>, after |-> <<n>>]
    ELSE [before |-> <<SubSeq(n, 1, d - 1)>>, after |-> <<SubSeq(n, d + 1, Len(n))>>]

\* Path::file_stem of a name: before.or(after)
FileStem(n) ==
    LET s == SplitAtDot(n) IN IF s.before # <<>> THEN s.before[1] ELSE s.after[1]

\* Path::extension of a name with unwrap_or(""): before.and(after)
Extension(n) ==
    LET s == SplitAtDot(n) IN IF s.before # <<>> THEN s.after[1] ELSE <<>>

\* format!("{}", counter) for a positive integer: its decimal digits
RECURSIVE Decimal(_)
Decimal(k) == IF k < 10 THEN <<48 + k>> ELSE Decimal(k \div 10) \o <<48 + (k % 10)>>

\* if extension.is_empty() { String::new() } else { format!(".{}", extension) }
ExtSuffix(n) == IF Extension(n) = <<>> THEN <<>> ELSE <<46>> \o Extension(n)

\* a variant of CopyName that appends " (copy)" to the whole name
CopyNameAppended(n) == n \o <<32, 40, 99, 111, 112, 121, 41>>

\* format!("{} (copy){}", file_stem, ext_suffix)
CopyName(n) == FileStem(n) \o <<32, 40, 99, 111, 112, 121, 41>> \o ExtSuffix(n)

\* format!("{} (copy {}){}", file_stem, counter, ext_suffix)
CopyNameN(n, counter) ==
    FileStem(n) \o <<32, 40, 99, 111, 112, 121, 32>> \o Decimal(counter) \o <<41>>
        \o ExtSuffix(n)

\* str::to_lowercase on ASCII bytes
ToLowercase(n) == [i \in 1..Len(n) |-> IF n[i] >= 65 /\ n[i] <= 90 THEN n[i] + 32 ELSE n[i]]

\* Ord::cmp of two strings (bytewise lexicographic): -1, 0 or 1
RECURSIVE StrCmp(_, _)
StrCmp(a, b) ==
    IF a = <<>> /\ b = <<>> THEN 0
    ELSE IF a = <<>> THEN -1
    ELSE IF b = <<>> THEN 1
    ELSE IF a[1] < b[1] THEN -1
    ELSE IF a[1] > b[1] THEN 1
    ELSE StrCmp(Tail(a), Tail(b))

(***************************************************************************)
(* The filesystem: a function from the existing paths to their entries.    *)
(* The root always exists and is a directory.                              *)
(***************************************************************************)
DirEntry == [dir |-> TRUE, data |-> <<>>]
FileEntry(bytes) == [dir |-> FALSE, data |-> bytes]

EmptyFs == Root :> DirEntry

\* Path::exists, Path::is_dir, Path::is_file
Exists(f, p) == p \in DOMAIN f
IsDir(f, p) == p \in DOMAIN f /\ f[p].dir
IsFile(f, p) == p \in DOMAIN f /\ ~f[p].dir

\* the paths of the subtree at p (p included)
Subtree(f, p) == {q \in DOMAIN f : IsPrefix(p, q)}

\* the entries directly inside directory p
ChildrenOf(f, p) == {q \in DOMAIN f : Len(q) = Len(p) + 1 /\ IsPrefix(p, q)}

\* f without the paths in gone
Without(f, gone) == [q \in (DOMAIN f) \ gone |-> f[q]]

\* the result of a filesystem call: whether it succeeded and the filesystem after
Done(f) == [ok |-> TRUE, fs |-> f]
Failed(f) == [ok |-> FALSE, fs |-> f]

\* the prefixes of p of length lo..hi
Prefixes(p, lo, hi) == {SubSeq(p, 1, k) : k \in lo..hi}

\* fs::create_dir_all: creates p and its missing ancestors; fails, creating
\* nothing, when p is too long or an existing ancestor (or p) is a file
CreateDirAll(f, p) ==
    IF IsDir(f, p) THEN Done(f)
    ELSE IF Len(p) > MaxDepth THEN Failed(f)
    ELSE IF \E q \in Prefixes(p, 0, Len(p)) : IsFile(f, q) THEN Failed(f)
    ELSE Done([q \in Prefixes(p, 0, Len(p)) \ DOMAIN f |-> DirEntry] @@ f)

\* fs::write: creates or truncates the file p; its parent must be a directory
FsWrite(f, p, bytes) ==
    IF p = Root \/ Len(p) > MaxDepth \/ IsDir(f, p) THEN Failed(f)
    ELSE IF ~IsDir(f, Parent(p)[1]) THEN Failed(f)
    ELSE Done((p :> FileEntry(bytes)) @@ f)

\* fs::copy: copies the content of file src to dst, replacing an existing file
\* (dst is opened with truncation, so copying a file onto itself empties it)
FsCopy(f, src, dst) ==
    IF ~IsFile(f, src) THEN Failed(f)
    ELSE IF src = dst THEN FsWrite(f, dst, <<>>)
    ELSE FsWrite(f, dst, f[src].data)

\* fs::remove_file
FsRemoveFile(f, p) ==
    IF IsFile(f, p) THEN Done(Without(f, {p})) ELSE Failed(f)

\* fs::remove_dir_all: removes the subtree at p; on the root it empties the
\* root and then fails to remove the root itself
FsRemoveDirAll(f, p) ==
    IF ~IsDir(f, p) THEN Failed(f)
    ELSE IF p = Root THEN Failed(EmptyFs)
    ELSE Done(Without(f, Subtree(f, p)))

\* the subtree at old re-rooted at new
Moved(f, old, new) ==
    [q \in {new \o SubSeq(r, Len(old) + 1, Len(r)) : r \in Subtree(f, old)} |->
        f[old \o SubSeq(q, Len(new) + 1, Len(q))]]

\* a variant of FsRename that leaves the subtree at old in place (a copy)
FsRenameKeepingSource(f, old, new) ==
    IF ~Exists(f, old) \/ new = Root \/ old = Root THEN Failed(f)
    ELSE IF ~IsDir(f, Parent(new)[1]) THEN Failed(f)
    ELSE IF old = new THEN Done(f)
    ELSE IF IsPrefix(old, new) \/ IsPrefix(new, old) THEN Failed(f)
    ELSE IF Len(new) > MaxDepth THEN Failed(f)
    ELSE Done(Moved(f, old, new) @@ f)

\* fs::rename (rename(2)): moves the subtree at old to new.  A file replaces
\* an existing file and a directory replaces an existing empty directory;
\* renaming a directory into its own subtree fails
FsRename(f, old, new) ==
    IF ~Exists(f, old) \/ new = Root \/ old = Root THEN Failed(f)
    ELSE IF ~IsDir(f, Parent(new)[1]) THEN Failed(f)
    ELSE IF old = new THEN Done(f)
    ELSE IF IsPrefix(old, new) \/ IsPrefix(new, old) THEN Failed(f)
    ELSE IF Len(new) > MaxDepth THEN Failed(f)
    ELSE IF Exists(f, new) /\ (f[new].dir # f[old].dir) THEN Failed(f)
    ELSE IF IsDir(f, new) /\ ChildrenOf(f, new) # {} THEN Failed(f)
    ELSE Done(Moved(f, old, new) @@ Without(f, Subtree(f, old) \cup {new}))

(***************************************************************************)
(* fs::read_dir yields the entries of a directory in an unspecified order. *)
(* An order is a permutation of 1..n applied to the positions of the       *)
(* entries in ascending byte order of their names (entries beyond the n-th *)
(* follow in ascending order).                                             *)
(***************************************************************************)
Orders(n) == {o \in [1..n -> 1..n] : \A i, j \in 1..n : i # j => o[i] # o[j]}

\* the paths of S (entries of one directory) in ascending byte order of names
RECURSIVE Ascending(_)
Ascending(S) ==
    IF S = {} THEN <<>>
    ELSE LET m == CHOOSE x \in S : \A y \in S : StrCmp(x[Len(x)], y[Len(y)]) <= 0
         IN <<m>> \o Ascending(S \ {m})

\* fs::read_dir(dir): the entries of dir in the order ord
ReadDir(f, dir, ord) ==
    LET asc == Ascending(ChildrenOf(f, dir))
        m == Len(asc)
        picked == SelectSeq(ord, LAMBDA k : k <= m)
    IN [i \in 1..Len(picked) |-> asc[picked[i]]] \o SubSeq(asc, Len(ord) + 1, m)

(***************************************************************************)
(* read_directory                                                          *)
(***************************************************************************)
\* a variant of NodeCmp that compares the names as they are
NodeCmpCaseSensitive(a, b) ==
    IF a.is_directory /\ ~b.is_directory THEN -1
    ELSE IF ~a.is_directory /\ b.is_directory THEN 1
    ELSE StrCmp(a.name, b.name)

\* the comparator of nodes.sort_by: directories first, then lower-cased names
NodeCmp(a, b) ==
    IF a.is_directory /\ ~b.is_directory THEN -1
    ELSE IF ~a.is_directory /\ b.is_directory THEN 1
    ELSE StrCmp(ToLowercase(a.name), ToLowercase(b.name))

\* Vec::sort_by (a stable sort) with NodeCmp
RECURSIVE SortNodes(_)
SortNodes(nodes) ==
    IF nodes = <<>> THEN <<>>
    ELSE LET n == Len(nodes)
             x == nodes[n]
             s == SortNodes(SubSeq(nodes, 1, n - 1))
             k == Cardinality({i \in 1..Len(s) : NodeCmp(s[i], x) <= 0})
         IN SubSeq(s, 1, k) \o <<x>> \o SubSeq(s, k + 1, Len(s))

\* a variant of read_directory_recursive that gives an unexpanded directory
\* an empty children list
RECURSIVE ReadDirectoryRecursiveEmptyChildren(_, _, _, _)
ReadDirectoryRecursiveEmptyChildren(f, dir_path, recursive, ord) ==
    LET entries == ReadDir(f, dir_path, ord)
        node(path) ==
            [name |-> path[Len(path)],
             path |-> path,
             is_directory |-> f[path].dir,
             children |-> IF f[path].dir
                          THEN IF recursive
                               THEN <<ReadDirectoryRecursiveEmptyChildren(f, path, recursive, ord)>>
                               ELSE << <<>> >>
                          ELSE <<>>,
             size |-> IF ~f[path].dir THEN <<Len(f[path].data)>> ELSE <<>>]
    IN SortNodes([i \in 1..Len(entries) |-> node(entries[i])])

\* read_directory_recursive: one FileNode per entry of dir_path, sorted
\* (without the field modified, the time of the last change).
\* The options children and size are <<>> (None) or <<value>> (Some)
RECURSIVE ReadDirectoryRecursive(_, _, _, _)
ReadDirectoryRecursive(f, dir_path, recursive, ord) ==
    LET entries == ReadDir(f, dir_path, ord)
        node(path) ==
            [name |-> path[Len(path)],
             path |-> path,
             is_directory |-> f[path].dir,
             children |-> IF f[path].dir /\ recursive
                          THEN <<ReadDirectoryRecursive(f, path, recursive, ord)>>
                          ELSE <<>>,
             size |-> IF ~f[path].dir THEN <<Len(f[path].data)>> ELSE <<>>]
    IN SortNodes([i \in 1..Len(entries) |-> node(entries[i])])

\* the outcome of a command: the kind of its result, the filesystem after it,
\* the value it returns (<<>> for none) and the final path it resolved
\* (<<>> for none)
Outcome(res, f, val, target) == [res |-> res, fs |-> f, val |-> val, target |-> target]

read_directory(f, path, recursive, ord) ==
    IF ~Exists(f, path) THEN Outcome("NotFound", f, <<>>, <<>>)
    ELSE IF ~IsDir(f, path) THEN Outcome("WrongType", f, <<>>, <<>>)
    ELSE Outcome("Ok", f, ReadDirectoryRecursive(f, path, recursive, ord), <<>>)

(***************************************************************************)
(* write_file, create_file, create_directory                               *)
(***************************************************************************)
\* fs::create_dir_all(parent) when the path has a parent
CreateParents(f, path) ==
    IF Parent(path) = <<>> THEN Done(f) ELSE CreateDirAll(f, Parent(path)[1])

write_file(f, path, content) ==
    LET c == CreateParents(f, path) IN
    IF ~c.ok THEN Outcome("IOFailure", c.fs, <<>>, <<>>)
    ELSE LET w == FsWrite(c.fs, path, content) IN
         Outcome(IF w.ok THEN "Ok" ELSE "IOFailure", w.fs, <<>>, <<>>)

\* a variant of create_file without the check of the path
create_file_unchecked(f, path) == write_file(f, path, <<>>)

create_file(f, path) ==
    IF Exists(f, path) THEN Outcome("AlreadyExists", f, <<>>, <<>>)
    ELSE write_file(f, path, <<>>)

create_directory(f, path) ==
    IF Exists(f, path) THEN Outcome("AlreadyExists", f, <<>>, <<>>)
    ELSE LET c == CreateDirAll(f, path) IN
         Outcome(IF c.ok THEN "Ok" ELSE "IOFailure", c.fs, <<>>, <<>>)

(***************************************************************************)
(* base64::engine::general_purpose::STANDARD: the alphabet A-Z a-z 0-9 + /,  *)
(* '=' padding written by encode and required (canonical) by decode.       *)
(* A string is the sequence of its bytes.                                  *)
(***************************************************************************)
\* '='
PadChar == 61

\* the symbol of a 6-bit value
Base64Symbol(v) ==
    IF v < 26 THEN 65 + v
    ELSE IF v < 52 THEN 97 + (v - 26)
    ELSE IF v < 62 THEN 48 + (v - 52)
    ELSE IF v = 62 THEN 43 ELSE 47

\* the 6-bit value of a symbol, as an option (<<>> for a byte outside the
\* alphabet)
Base64Value(c) ==
    IF c >= 65 /\ c <= 90 THEN <<c - 65>>
    ELSE IF c >= 97 /\ c <= 122 THEN <<c - 97 + 26>>
    ELSE IF c >= 48 /\ c <= 57 THEN <<c - 48 + 52>>
    ELSE IF c = 43 THEN <<62>>
    ELSE IF c = 47 THEN <<63>>
    ELSE <<>>

\* Engine::encode: three bytes give four symbols; a last group of one or two
\* bytes gives two or three symbols and is padded to four
RECURSIVE Base64Encode(_)
Base64Encode(bytes) ==
    IF Len(bytes) = 0 THEN <<>>
    ELSE IF Len(bytes) = 1 THEN
        <<Base64Symbol(bytes[1] \div 4), Base64Symbol((bytes[1] % 4) * 16), PadChar, PadChar>>
    ELSE IF Len(bytes) = 2 THEN
        <<Base64Symbol(bytes[1] \div 4),
          Base64Symbol((bytes[1] % 4) * 16 + bytes[2] \div 16),
          Base64Symbol((bytes[2] % 16) * 4), PadChar>>
    ELSE
        <<Base64Symbol(bytes[1] \div 4),
          Base64Symbol((bytes[1] % 4) * 16 + bytes[2] \div 16),
          Base64Symbol((bytes[2] % 16) * 4 + bytes[3] \div 64),
          Base64Symbol(bytes[3] % 64)>> \o Base64Encode(SubSeq(bytes, 4, Len(bytes)))

\* the bytes of one group of four symbols, as an option: padding is accepted
\* only in the last group, only as "xx==" or "xxx=", and only when the bits
\* that are dropped are zero
DecodeGroup(g, last) ==
    LET v == [i \in 1..4 |-> Base64Value(g[i])] IN
    IF v[1] = <<>> \/ v[2] = <<>> THEN <<>>
    ELSE IF v[3] # <<>> /\ v[4] # <<>> THEN
        <<(<<v[1][1] * 4 + v[2][1] \div 16,
             (v[2][1] % 16) * 16 + v[3][1] \div 4,
             (v[3][1] % 4) * 64 + v[4][1]>>)>>
    ELSE IF ~last \/ g[4] # PadChar THEN <<>>
    ELSE IF v[3] # <<>> THEN
        IF v[3][1] % 4 # 0 THEN <<>>
        ELSE <<(<<v[1][1] * 4 + v[2][1] \div 16, (v[2][1] % 16) * 16 + v[3][1] \div 4>>)>>
    ELSE IF g[3] # PadChar \/ v[2][1] % 16 # 0 THEN <<>>
    ELSE <<(<<v[1][1] * 4 + v[2][1] \div 16>>)>>

\* Engine::decode, as an option: <<>> for a string that is not canonical
\* base64 (DecodeError)
RECURSIVE Base64Decode(_)
Base64Decode(data) ==
    IF Len(data) = 0 THEN <<(<<>>)>>
    ELSE IF Len(data) < 4 THEN <<>>
    ELSE LET g == DecodeGroup(SubSeq(data, 1, 4), Len(data) = 4)
             rest == Base64Decode(SubSeq(data, 5, Len(data)))
         IN IF g = <<>> \/ rest = <<>> THEN <<>> ELSE <<g[1] \o rest[1]>>

(***************************************************************************)
(* read_file_binary, write_file_binary                                     *)
(***************************************************************************)
read_file_binary(f, path) ==
    IF ~Exists(f, path) THEN Outcome("NotFound", f, <<>>, <<>>)
    ELSE IF ~IsFile(f, path) THEN Outcome("WrongType", f, <<>>, <<>>)
    ELSE Outcome("Ok", f, Base64Encode(f[path].data), <<>>)

\* a variant of write_file_binary that writes the string as it is
write_file_binary_undecoded(f, path, data) == write_file(f, path, data)

\* the parent directories are created before the data is decoded
write_file_binary(f, path, data) ==
    LET c == CreateParents(f, path) IN
    IF ~c.ok THEN Outcome("IOFailure", c.fs, <<>>, <<>>)
    ELSE LET bytes == Base64Decode(data) IN
         IF bytes = <<>> THEN Outcome("InvalidData", c.fs, <<>>, <<>>)
         ELSE LET w == FsWrite(c.fs, path, bytes[1]) IN
              Outcome(IF w.ok THEN "Ok" ELSE "IOFailure", w.fs, <<>>, <<>>)

(***************************************************************************)
(* rename_path, delete_path, move_path, path_exists                        *)
(***************************************************************************)
\* a variant of rename_path without the check of the new path
rename_path_overwriting(f, old, new) ==
    IF ~Exists(f, old) THEN Outcome("SourceMissing", f, <<>>, <<>>)
    ELSE LET r == FsRename(f, old, new) IN
         Outcome(IF r.ok THEN "Ok" ELSE "IOFailure", r.fs, <<>>, <<>>)

rename_path(f, old, new) ==
    IF ~Exists(f, old) THEN Outcome("SourceMissing", f, <<>>, <<>>)
    ELSE IF Exists(f, new) THEN Outcome("DestinationExists", f, <<>>, <<>>)
    ELSE LET r == FsRename(f, old, new) IN
         Outcome(IF r.ok THEN "Ok" ELSE "IOFailure", r.fs, <<>>, <<>>)

\* a variant of delete_path that removes a directory and the files below it
\* but leaves its subdirectories
delete_path_shallow(f, path) ==
    IF ~Exists(f, path) THEN Outcome("NotFound", f, <<>>, <<>>)
    ELSE IF path = Root THEN Outcome("IOFailure", f, <<>>, <<>>)
    ELSE Outcome("Ok", Without(f, {path} \cup {q \in Subtree(f, path) : ~f[q].dir}), <<>>, <<>>)

delete_path(f, path) ==
    IF ~Exists(f, path) THEN Outcome("NotFound", f, <<>>, <<>>)
    ELSE LET r == IF IsDir(f, path) THEN FsRemoveDirAll(f, path) ELSE FsRemoveFile(f, path)
         IN Outcome(IF r.ok THEN "Ok" ELSE "IOFailure", r.fs, <<>>, <<>>)

\* if dest.is_dir() { dest.join(src.file_name()?) } else { dest }, as an
\* option: <<>> when the source has no file name
FinalDest(f, src, dest) ==
    IF IsDir(f, dest)
    THEN IF FileName(src) = <<>> THEN <<>> ELSE <<Join(dest, FileName(src)[1])>>
    ELSE <<dest>>

\* a variant of move_path without the check of the final destination
move_path_overwriting(f, source, destination) ==
    IF ~Exists(f, source) THEN Outcome("SourceMissing", f, <<>>, <<>>)
    ELSE LET fd == FinalDest(f, source, destination) IN
    IF fd = <<>> THEN Outcome("InvalidPath", f, <<>>, <<>>)
    ELSE LET c == CreateParents(f, fd[1]) IN
    IF ~c.ok THEN Outcome("IOFailure", c.fs, <<>>, fd)
    ELSE LET r == FsRename(c.fs, source, fd[1]) IN
         Outcome(IF r.ok THEN "Ok" ELSE "IOFailure", r.fs, <<>>, fd)

move_path(f, source, destination) ==
    IF ~Exists(f, source) THEN Outcome("SourceMissing", f, <<>>, <<>>)
    ELSE LET fd == FinalDest(f, source, destination) IN
    IF fd = <<>> THEN Outcome("InvalidPath", f, <<>>, <<>>)
    ELSE IF Exists(f, fd[1]) THEN Outcome("DestinationExists", f, <<>>, fd)
    ELSE LET c == CreateParents(f, fd[1]) IN
    IF ~c.ok THEN Outcome("IOFailure", c.fs, <<>>, fd)
    ELSE LET r == FsRename(c.fs, source, fd[1]) IN
         Outcome(IF r.ok THEN "Ok" ELSE "IOFailure", r.fs, <<>>, fd)

path_exists(f, path) == Outcome("Ok", f, <<Exists(f, path)>>, <<>>)

(***************************************************************************)
(* copy_file                                                               *)
(***************************************************************************)
\* the safety limit of the collision loop: if counter > 1000
CounterLimit == 1000

\* one turn of  while target_path.exists() { target_path = "... (copy
\* {counter})..."; counter += 1; if counter > 1000 { return Err } }  on the
\* loop's variables: the test of the condition and, if it holds, the body
\* (ProbeStepSkipping and ProbeStepEarlyLimit are variants of ProbeStep, the
\* first formatting the counter after advancing it, the second leaving the
\* loop one turn earlier; the properties below tell them from ProbeStep)
ProbeStepSkipping(f, parent, name, st) ==
    IF st.status # "probing" THEN st
    ELSE IF ~Exists(f, st.target_path) THEN [st EXCEPT !.status = "free"]
    ELSE IF st.counter + 1 > CounterLimit THEN [st EXCEPT !.status = "exhausted"]
    ELSE [target_path |-> Join(parent, CopyNameN(name, st.counter + 1)),
          counter |-> st.counter + 1, status |-> "probing"]

ProbeStepEarlyLimit(f, parent, name, st) ==
    IF st.status # "probing" THEN st
    ELSE IF ~Exists(f, st.target_path) THEN [st EXCEPT !.status = "free"]
    ELSE IF st.counter + 1 >= CounterLimit THEN [st EXCEPT !.status = "exhausted"]
    ELSE [target_path |-> Join(parent, CopyNameN(name, st.counter)),
          counter |-> st.counter + 1, status |-> "probing"]

ProbeStep(f, parent, name, st) ==
    IF st.status # "probing" THEN st
    ELSE IF ~Exists(f, st.target_path) THEN [st EXCEPT !.status = "free"]
    ELSE IF st.counter + 1 > CounterLimit THEN [st EXCEPT !.status = "exhausted"]
    ELSE [target_path |-> Join(parent, CopyNameN(name, st.counter)),
          counter |-> st.counter + 1, status |-> "probing"]

\* the loop: up to turns turns of it, in order, from the variables st (the
\* turns are split in halves to keep the evaluation shallow; the loop has
\* left after at most CounterLimit turns)
RECURSIVE ProbeLoop(_, _, _, _, _)
ProbeLoop(f, parent, name, st, turns) ==
    IF st.status # "probing" \/ turns = 0 THEN st
    ELSE IF turns = 1 THEN ProbeStep(f, parent, name, st)
    ELSE ProbeLoop(f, parent, name,
                   ProbeLoop(f, parent, name, st, turns \div 2), turns - (turns \div 2))

\* a variant of ResolveTarget that keeps final_dest whether it exists or not
ResolveTargetNoProbe(f, final_dest) == [res |-> "Ok", target |-> <<final_dest>>]

\* the collision block of copy_file (the same code in the directory and in
\* the file branch): final_dest itself when it is free, else the first free
\* probe
ResolveTarget(f, final_dest) ==
    IF ~Exists(f, final_dest) THEN [res |-> "Ok", target |-> <<final_dest>>]
    ELSE IF FileName(final_dest) = <<>> THEN [res |-> "InvalidPath", target |-> <<>>]
    ELSE LET name == FileName(final_dest)[1]
             parent == Parent(final_dest)[1]
             st == ProbeLoop(f, parent, name,
                             [target_path |-> Join(parent, CopyName(name)), counter |-> 2,
                              status |-> "probing"],
                             CounterLimit)
         IN IF st.status = "free" THEN [res |-> "Ok", target |-> <<st.target_path>>]
            ELSE [res |-> "TooManyCollisions", target |-> <<>>]

\* The I/O failures of the environment (permissions, disk full, device gone)
\* during one command, as an option: <<>> when every filesystem call goes
\* through, <<n>> when n more calls go through and the one after them fails.
\* Attempt is one filesystem call on f whose outcome is r when it goes through.
Attempt(io, f, r) ==
    IF io = <<0>> THEN [ok |-> FALSE, fs |-> f, io |-> io]
    ELSE [ok |-> r.ok, fs |-> r.fs, io |-> IF io = <<>> THEN io ELSE <<io[1] - 1>>]

\* copy_dir_recursive: create dest, then copy the entries of src one by one
\* in read_dir order; the first failing call ends the traversal
RECURSIVE CopyDirRecursive(_, _, _, _, _), CopyEntries(_, _, _, _, _)
CopyDirRecursive(f, src, dest, ord, io) ==
    LET c == Attempt(io, f, CreateDirAll(f, dest)) IN
    IF ~c.ok THEN c
    ELSE LET d == Attempt(c.io, c.fs, IF IsDir(c.fs, src) THEN Done(c.fs) ELSE Failed(c.fs)) IN
    IF ~d.ok THEN d
    ELSE CopyEntries(d.fs, ReadDir(d.fs, src, ord), dest, ord, d.io)

\* a variant of CopyEntries that does not descend into subdirectories
RECURSIVE CopyEntriesFilesOnly(_, _, _, _, _)
CopyEntriesFilesOnly(f, entries, dest, ord, io) ==
    IF entries = <<>> THEN [ok |-> TRUE, fs |-> f, io |-> io]
    ELSE LET entry_path == Head(entries)
             dest_path == Join(dest, FileName(entry_path)[1])
             r == IF IsDir(f, entry_path) THEN [ok |-> TRUE, fs |-> f, io |-> io]
                  ELSE Attempt(io, f, FsCopy(f, entry_path, dest_path))
         IN IF ~r.ok THEN r ELSE CopyEntriesFilesOnly(r.fs, Tail(entries), dest, ord, r.io)

\* a variant of CopyEntries that goes on with the next entry after a failure
RECURSIVE CopyEntriesIgnoringErrors(_, _, _, _, _)
CopyEntriesIgnoringErrors(f, entries, dest, ord, io) ==
    IF entries = <<>> THEN [ok |-> TRUE, fs |-> f, io |-> io]
    ELSE LET entry_path == Head(entries)
             dest_path == Join(dest, FileName(entry_path)[1])
             r == IF IsDir(f, entry_path)
                  THEN CopyDirRecursive(f, entry_path, dest_path, ord, io)
                  ELSE Attempt(io, f, FsCopy(f, entry_path, dest_path))
             rest == CopyEntriesIgnoringErrors(r.fs, Tail(entries), dest, ord,
                                               IF r.ok THEN r.io ELSE <<>>)
         IN [rest EXCEPT !.ok = r.ok /\ rest.ok]

\* the body of the for loop of copy_dir_recursive over the remaining entries
CopyEntries(f, entries, dest, ord, io) ==
    IF entries = <<>> THEN [ok |-> TRUE, fs |-> f, io |-> io]
    ELSE LET entry_path == Head(entries)
             dest_path == Join(dest, FileName(entry_path)[1])
             r == IF IsDir(f, entry_path)
                  THEN CopyDirRecursive(f, entry_path, dest_path, ord, io)
                  ELSE Attempt(io, f, FsCopy(f, entry_path, dest_path))
         IN IF ~r.ok THEN r ELSE CopyEntries(r.fs, Tail(entries), dest, ord, r.io)

\* copy_file; the directory and the file branch share the first steps (the
\* source is one or the other: there are no special files)
copy_file(f, source, destination, ord, io) ==
    IF ~Exists(f, source) THEN Outcome("SourceMissing", f, <<>>, <<>>)
    ELSE LET fd == FinalDest(f, source, destination) IN
    IF fd = <<>> THEN Outcome("InvalidPath", f, <<>>, <<>>)
    ELSE LET t == ResolveTarget(f, fd[1]) IN
    IF t.res # "Ok" THEN Outcome(t.res, f, <<>>, <<>>)
    ELSE IF IsDir(f, source)
    THEN LET r == CopyDirRecursive(f, source, t.target[1], ord, io) IN
         Outcome(IF r.ok THEN "Ok" ELSE "IOFailure", r.fs, <<>>, t.target)
    ELSE LET c == Attempt(io, f, CreateParents(f, t.target[1])) IN
         IF ~c.ok THEN Outcome("IOFailure", c.fs, <<>>, t.target)
         ELSE LET w == Attempt(c.io, c.fs, FsCopy(c.fs, source, t.target[1])) IN
              Outcome(IF w.ok THEN "Ok" ELSE "IOFailure", w.fs, <<>>, t.target)

(***************************************************************************)
(* copy_file one filesystem call at a time.  A call in flight is a record   *)
(* of its arguments, its position pc (the filesystem call it makes next),  *)
(* its locals final_dest, target_path and counter, and its result.         *)
(***************************************************************************)
\* (overlapped is not of the program: it records the calls that made a
\* filesystem call between the first and the last one of this call)
NewCall(source, destination) ==
    [source |-> source, destination |-> destination, pc |-> "src.exists",
     final_dest |-> Root, target_path |-> Root, counter |-> 2, res |-> "none",
     overlapped |-> {}]

\* the call has returned res
Returned(c, res) == [c EXCEPT !.pc = "done", !.res = res]

\* the filesystem call that follows the collision block: copy_dir_recursive
\* for a directory source (taken here as one step) and create_dir_all of the
\* parent for a file
AfterResolve(f, c) == IF IsDir(f, c.source) THEN "copy_dir_recursive" ELSE "create_dir_all"

\* a variant of CopyFileStep that does not test whether the target exists
CopyFileStepUnchecked(f, c, ord) ==
    IF c.pc = "src.exists" THEN
        [fs |-> f, call |-> IF Exists(f, c.source) THEN [c EXCEPT !.pc = "dest.is_dir"]
                            ELSE Returned(c, "SourceMissing")]
    ELSE IF c.pc = "dest.is_dir" THEN
        [fs |-> f, call |->
            IF ~IsDir(f, c.destination)
            THEN [c EXCEPT !.final_dest = c.destination, !.target_path = c.destination,
                           !.pc = AfterResolve(f, c)]
            ELSE IF FileName(c.source) = <<>> THEN Returned(c, "InvalidPath")
            ELSE [c EXCEPT !.final_dest = Join(c.destination, FileName(c.source)[1]),
                           !.target_path = Join(c.destination, FileName(c.source)[1]),
                           !.pc = AfterResolve(f, c)]]
    ELSE IF c.pc = "copy_dir_recursive" THEN
        LET r == CopyDirRecursive(f, c.source, c.target_path, ord, <<>>) IN
        [fs |-> r.fs, call |-> Returned(c, IF r.ok THEN "Ok" ELSE "IOFailure")]
    ELSE IF c.pc = "create_dir_all" THEN
        LET r == CreateParents(f, c.target_path) IN
        [fs |-> r.fs, call |-> IF r.ok THEN [c EXCEPT !.pc = "fs::copy"]
                               ELSE Returned(c, "IOFailure")]
    ELSE LET w == FsCopy(f, c.source, c.target_path) IN
        [fs |-> w.fs, call |-> Returned(c, IF w.ok THEN "Ok" ELSE "IOFailure")]

\* one filesystem call of the call c of copy_file on the filesystem f, and
\* the code up to the next one
CopyFileStep(f, c, ord) ==
    IF c.pc = "src.exists" THEN
        \* if !src.exists() { return Err }
        [fs |-> f, call |-> IF Exists(f, c.source) THEN [c EXCEPT !.pc = "src.is_dir"]
                            ELSE Returned(c, "SourceMissing")]
    ELSE IF c.pc = "src.is_dir" THEN
        \* if src.is_dir() { ... }  else  if !src.is_file() { return Err }
        [fs |-> f, call |-> [c EXCEPT !.pc = IF IsDir(f, c.source) THEN "dest.is_dir"
                                             ELSE "src.is_file"]]
    ELSE IF c.pc = "src.is_file" THEN
        [fs |-> f, call |-> IF IsFile(f, c.source) THEN [c EXCEPT !.pc = "dest.is_dir"]
                            ELSE Returned(c, "WrongType")]
    ELSE IF c.pc = "dest.is_dir" THEN
        \* let final_dest = if dest.is_dir() { dest.join(src.file_name()?) } else { dest }
        [fs |-> f, call |->
            IF ~IsDir(f, c.destination)
            THEN [c EXCEPT !.final_dest = c.destination, !.target_path = c.destination,
                           !.pc = "target_path.exists"]
            ELSE IF FileName(c.source) = <<>> THEN Returned(c, "InvalidPath")
            ELSE [c EXCEPT !.final_dest = Join(c.destination, FileName(c.source)[1]),
                           !.target_path = Join(c.destination, FileName(c.source)[1]),
                           !.pc = "target_path.exists"]]
    ELSE IF c.pc = "target_path.exists" THEN
        \* if target_path.exists() { ... target_path = "{stem} (copy){ext}"; counter = 2
        [fs |-> f, call |->
            IF ~Exists(f, c.target_path) THEN [c EXCEPT !.pc = AfterResolve(f, c)]
            ELSE IF FileName(c.final_dest) = <<>> THEN Returned(c, "InvalidPath")
            ELSE [c EXCEPT !.target_path = Join(Parent(c.final_dest)[1],
                                                CopyName(FileName(c.final_dest)[1])),
                           !.counter = 2, !.pc = "while target_path.exists"]]
    ELSE IF c.pc = "while target_path.exists" THEN
        \* one turn of the loop
        LET st == ProbeStep(f, Parent(c.final_dest)[1], FileName(c.final_dest)[1],
                            [target_path |-> c.target_path, counter |-> c.counter,
                             status |-> "probing"])
        IN [fs |-> f, call |->
               IF st.status = "free" THEN [c EXCEPT !.pc = AfterResolve(f, c)]
               ELSE IF st.status = "exhausted" THEN Returned(c, "TooManyCollisions")
               ELSE [c EXCEPT !.target_path = st.target_path, !.counter = st.counter]]
    ELSE IF c.pc = "copy_dir_recursive" THEN
        LET r == CopyDirRecursive(f, c.source, c.target_path, ord, <<>>) IN
        [fs |-> r.fs, call |-> Returned(c, IF r.ok THEN "Ok" ELSE "IOFailure")]
    ELSE IF c.pc = "create_dir_all" THEN
        \* if let Some(parent) = target_path.parent() { fs::create_dir_all(parent)? }
        LET r == CreateParents(f, c.target_path) IN
        [fs |-> r.fs, call |-> IF r.ok THEN [c EXCEPT !.pc = "fs::copy"]
                               ELSE Returned(c, "IOFailure")]
    ELSE
        \* fs::copy(&src, &target_path)?
        LET w == FsCopy(f, c.source, c.target_path) IN
        [fs |-> w.fs, call |-> Returned(c, IF w.ok THEN "Ok" ELSE "IOFailure")]

(***************************************************************************)
(* The state machine: the front-end calls the commands one after another.  *)
(*   fs   the filesystem                                                   *)
(*   pre  the filesystem before the last command                           *)
(*   op   the last command: its name, arguments, result kind and the       *)
(*        final path it resolved (an option); where the environment is     *)
(*        observed, also the read_dir order and the I/O failure (options)  *)
(*   ret  the value the last command returned (<<>> for none)              *)
(*   calls  the copy_file calls in flight where calls run concurrently     *)
(*        (SpecRace): for each its arguments, position and locals          *)
(* A command runs to completion in one step (the commands are synchronous) *)
(* and its result stays visible until the front-end takes it (Return).     *)
(* In SpecRace callers on several threads run copy_file at once and a step *)
(* is one filesystem call of one of them.                                  *)
(***************************************************************************)
VARIABLES fs, pre, op, ret, calls
vars == <<fs, pre, op, ret, calls>>

Call(name, src, dst, flag, data) ==
    [name |-> name, src |-> src, dst |-> dst, recursive |-> flag, data |-> data]

\* the state after a command with outcome out under an environment that is
\* observed: the order read_dir yielded and the I/O failure that hit the command
ApplyEnv(call, out, ord, io) ==
    /\ fs' = out.fs
    /\ pre' = fs
    /\ op' = [name |-> call.name, src |-> call.src, dst |-> call.dst,
              recursive |-> call.recursive, data |-> call.data,
              res |-> out.res, target |-> out.target, ord |-> ord, io |-> io]
    /\ ret' = out.val
    /\ UNCHANGED calls

\* the state after a command with outcome out (no I/O failure)
Apply(call, out) == ApplyEnv(call, out, <<>>, <<>>)

\* every name is within MaxNameLen and every path within MaxDepth
InBounds(f) ==
    \A p \in DOMAIN f : Len(p) <= MaxDepth /\ \A i \in 1..Len(p) : Len(p[i]) <= MaxNameLen

\* the same, explored only while every name is within MaxNameLen and every
\* path within MaxDepth (a rename can carry a subtree deeper)
Bounded(call, out) == InBounds(out.fs) /\ Apply(call, out)

\* paths the commands are called with: the existing ones, and new ones one
\* or two components below an existing one
NewPaths(f, names) == {Join(p, n) : p \in DOMAIN f, n \in names} \ DOMAIN f
DeepPaths(f, names) ==
    {Join(Join(p, NameD), n) : p \in {q \in DOMAIN f : f[q].dir}, n \in names} \ DOMAIN f
Paths(f, names) == DOMAIN f \cup NewPaths(f, names) \cup DeepPaths(f, names)
Sources(f) == DOMAIN f \cup {<<NameAB>>}

\* no command is running and the filesystem is within the explored size
Idle(limit) == op.name = "none" /\ Cardinality(DOMAIN fs) <= limit + 1

NoCall == [name |-> "none", src |-> Root, dst |-> Root, recursive |-> FALSE,
           data |-> <<>>, res |-> "Ok", target |-> <<>>, ord |-> <<>>, io |-> <<>>]

Init ==
    /\ fs = EmptyFs
    /\ pre = EmptyFs
    /\ op = NoCall
    /\ ret = <<>>
    /\ calls = <<>>

ReadDirectory(limit, names) ==
    /\ Idle(limit)
    /\ \E path \in DOMAIN fs \cup NewPaths(fs, names), recursive \in BOOLEAN :
        \E ord \in IF IsDir(fs, path) THEN Orders(limit) ELSE {<<>>} :
            Bounded(Call("read_directory", path, Root, recursive, <<>>),
                    read_directory(fs, path, recursive, ord))

WriteFile(limit, names) ==
    /\ Idle(limit)
    /\ \E path \in Paths(fs, names), content \in Contents :
        Bounded(Call("write_file", path, Root, FALSE, content), write_file(fs, path, content))

CreateFile(limit, names) ==
    /\ Idle(limit)
    /\ \E path \in Paths(fs, names) :
        Bounded(Call("create_file", path, Root, FALSE, <<>>), create_file(fs, path))

CreateDirectory(limit, names) ==
    /\ Idle(limit)
    /\ \E path \in Paths(fs, names) :
        Bounded(Call("create_directory", path, Root, FALSE, <<>>), create_directory(fs, path))

RenamePath(limit, names) ==
    /\ Idle(limit)
    /\ \E old \in Sources(fs), new \in Paths(fs, names) :
        Bounded(Call("rename_path", old, new, FALSE, <<>>), rename_path(fs, old, new))

DeletePath(limit, names) ==
    /\ Idle(limit)
    /\ \E path \in Sources(fs) :
        Bounded(Call("delete_path", path, Root, FALSE, <<>>), delete_path(fs, path))

MovePath(limit, names) ==
    /\ Idle(limit)
    /\ \E source \in Sources(fs), destination \in Paths(fs, names) :
        Bounded(Call("move_path", source, destination, FALSE, <<>>),
              move_path(fs, source, destination))

CopyFile(limit, names) ==
    /\ Idle(limit)
    /\ \E source \in Sources(fs), destination \in Paths(fs, names) :
        \E ord \in IF IsDir(fs, source) THEN Orders(limit) ELSE {<<>>} :
            Bounded(Call("copy_file", source, destination, FALSE, <<>>),
                    copy_file(fs, source, destination, ord, <<>>))

PathExists(limit, names) ==
    /\ Idle(limit)
    /\ \E path \in DOMAIN fs \cup NewPaths(fs, names) :
        Bounded(Call("path_exists", path, Root, FALSE, <<>>), path_exists(fs, path))

\* copy_file of a directory while the environment makes one of the
\* filesystem calls fail (or none, when the command makes fewer calls)
CopyFileFaulty(limit, names) ==
    /\ Idle(limit)
    /\ \E source \in {p \in DOMAIN fs : IsDir(fs, p)}, destination \in Paths(fs, names),
          ord \in Orders(limit), n \in 0..MaxIoCalls :
        LET out == copy_file(fs, source, destination, ord, <<n>>) IN
        /\ InBounds(out.fs)
        /\ ApplyEnv(Call("copy_file", source, destination, FALSE, <<>>), out, ord, <<n>>)

ReadFileBinary(limit, names) ==
    /\ Idle(limit)
    /\ \E path \in DOMAIN fs \cup NewPaths(fs, names) :
        Bounded(Call("read_file_binary", path, Root, FALSE, <<>>), read_file_binary(fs, path))

\* the front-end sends base64(bytes), or a string that is not base64
\* the binary contents the front-end sends, and base64(bytes) of each
BinaryContents == ByteSeqs(MaxBytes)
Base64Of == [b \in BinaryContents |-> Base64Encode(b)]
EncodedContents == {Base64Of[b] : b \in BinaryContents}

WriteFileBinary(limit, names) ==
    /\ Idle(limit)
    /\ \E path \in Paths(fs, names),
          data \in EncodedContents \cup BadData :
        Bounded(Call("write_file_binary", path, Root, FALSE, data),
                write_file_binary(fs, path, data))

\* the front-end has received the result; the next command can be called
Return ==
    /\ op.name # "none"
    /\ op' = NoCall
    /\ pre' = fs
    /\ ret' = <<>>
    /\ UNCHANGED <<fs, calls>>

Next ==
    \/ ReadDirectory(MaxEntries, BaseNames)
    \/ WriteFile(MaxEntries, BaseNames)
    \/ CreateFile(MaxEntries, BaseNames)
    \/ CreateDirectory(MaxEntries, BaseNames)
    \/ RenamePath(MaxEntries, BaseNames)
    \/ DeletePath(MaxEntries, BaseNames)
    \/ MovePath(MaxEntries, BaseNames)
    \/ CopyFile(MaxEntries, BaseNames)
    \/ PathExists(MaxEntries, BaseNames)
    \/ Return

Spec == Init /\ [][Next]_vars

\* the commands that build and copy trees, explored from larger filesystems
NextCopy ==
    \/ WriteFile(MaxCopyEntries, CopyNames)
    \/ CreateDirectory(MaxCopyEntries, CopyNames)
    \/ DeletePath(MaxCopyEntries, CopyNames)
    \/ CopyFile(MaxCopyEntries, CopyNames)
    \/ Return

SpecCopy == Init /\ [][NextCopy]_vars

\* the commands that make and copy entries, over the names with and without
\* an extension: the collision names of files and directories
DottedNames == {NameAB, NameD}

NextDotted ==
    \/ WriteFile(MaxEntries, DottedNames)
    \/ CreateDirectory(MaxEntries, DottedNames)
    \/ CopyFile(MaxEntries, DottedNames)
    \/ Return

SpecDotted == Init /\ [][NextDotted]_vars

\* all commands but copy_file (whose " (copy)" names multiply the
\* filesystems), explored from larger filesystems
NextTree ==
    \/ ReadDirectory(MaxTreeEntries, BaseNames)
    \/ WriteFile(MaxTreeEntries, BaseNames)
    \/ CreateFile(MaxTreeEntries, BaseNames)
    \/ CreateDirectory(MaxTreeEntries, BaseNames)
    \/ RenamePath(MaxTreeEntries, BaseNames)
    \/ DeletePath(MaxTreeEntries, BaseNames)
    \/ MovePath(MaxTreeEntries, BaseNames)
    \/ PathExists(MaxTreeEntries, BaseNames)
    \/ Return

SpecTree == Init /\ [][NextTree]_vars

\* trees are built and copied under I/O failures
NextFaulty ==
    \/ WriteFile(MaxFaultyEntries, CopyNames)
    \/ CreateDirectory(MaxFaultyEntries, CopyNames)
    \/ CopyFileFaulty(MaxFaultyEntries, CopyNames)
    \/ Return

SpecFaulty == Init /\ [][NextFaulty]_vars

(***************************************************************************)
(* Concurrent callers: copy_file calls with one destination start on a     *)
(* filesystem with the files A.txt and a.b and the directory D, and their  *)
(* filesystem calls interleave in any order.                               *)
(***************************************************************************)
RaceFs ==
    (Root :> DirEntry) @@ (<<NameA>> :> FileEntry(<<7>>))
        @@ (<<NameAB>> :> FileEntry(<<8, 9>>)) @@ (<<NameD>> :> DirEntry)

RaceSources == {<<NameA>>, <<NameAB>>, <<NameD>>}
\* an existing file, an existing directory, a path that does not exist
RaceDestinations == {<<NameA>>, <<NameD>>, <<NameD, NameA>>}

InitRace ==
    /\ fs = RaceFs
    /\ pre = RaceFs
    /\ op = NoCall
    /\ ret = <<>>
    /\ \E destination \in RaceDestinations, source \in [1..MaxCallers -> RaceSources] :
          calls = [i \in 1..MaxCallers |-> NewCall(source[i], destination)]

\* the calls other than i that have made a filesystem call and not returned
InFlight(i) == {j \in DOMAIN calls \ {i} : calls[j].pc \notin {"src.exists", "done"}}

\* the next filesystem call of one of the calls
CopyStep ==
    \E i \in DOMAIN calls :
        /\ calls[i].pc # "done"
        /\ \E ord \in IF calls[i].pc = "copy_dir_recursive" THEN Orders(MaxEntries) ELSE {<<>>} :
            LET out == CopyFileStep(fs, calls[i], ord) IN
            /\ fs' = out.fs
            /\ calls' = [j \in DOMAIN calls |->
                            IF j = i THEN [out.call EXCEPT !.overlapped = @ \cup InFlight(i)]
                            ELSE IF j \in InFlight(i)
                                 THEN [calls[j] EXCEPT !.overlapped = @ \cup {i}]
                                 ELSE calls[j]]
        /\ UNCHANGED <<pre, op, ret>>

NextRace == CopyStep

SpecRace == InitRace /\ [][NextRace]_vars

\* binary files A.txt written, read back and deleted in and below directories D
NextBinary ==
    \/ ReadFileBinary(MaxBinaryEntries, {NameA})
    \/ WriteFileBinary(MaxBinaryEntries, {NameA})
    \/ CreateDirectory(MaxBinaryEntries, {NameD})
    \/ DeletePath(MaxBinaryEntries, {NameA})
    \/ Return

SpecBinary == Init /\ [][NextBinary]_vars

(***************************************************************************)
(* Crowded directories: the root holds A.txt, a directory D and all of     *)
(* "A (copy).txt", "A (copy 2).txt", ..., "A (copy 1000).txt" except a few  *)
(* (what a thousand copies and some deletions leave behind).               *)
(***************************************************************************)
\* probe numbers that may be free in a crowded directory
FreeCandidates == {2, 500, 999, 1000}

CrowdedFs(free) ==
    [p \in {Root, <<NameA>>, <<NameD>>}
            \cup {<<IF k = 1 THEN CopyName(NameA) ELSE CopyNameN(NameA, k)>> :
                        k \in (1..CounterLimit) \ free} |->
        IF p = Root \/ p = <<NameD>> THEN DirEntry
        ELSE IF p = <<NameA>> THEN FileEntry(<<7>>)
        ELSE FileEntry(<<8, 9>>)]

InitCrowded ==
    /\ \E free \in SUBSET FreeCandidates : fs = CrowdedFs(free) /\ pre = CrowdedFs(free)
    /\ op = NoCall
    /\ ret = <<>>
    /\ calls = <<>>

\* copy_file of the file A.txt or the directory D onto A.txt
CopyCrowded ==
    /\ op.name = "none"
    /\ \E source \in {<<NameA>>, <<NameD>>}, destination \in {<<NameA>>} :
        Apply(Call("copy_file", source, destination, FALSE, <<>>),
              copy_file(fs, source, destination, <<1>>, <<>>))

\* delete_path of one of the copies
DeleteCrowded ==
    /\ op.name = "none"
    /\ \E k \in FreeCandidates :
        Apply(Call("delete_path", <<CopyNameN(NameA, k)>>, Root, FALSE, <<>>),
              delete_path(fs, <<CopyNameN(NameA, k)>>))

NextCrowded == CopyCrowded \/ DeleteCrowded \/ Return

SpecCrowded == InitCrowded /\ [][NextCrowded]_vars

\* the filesystem is a tree of directories: every entry's parent is a directory
TreeShaped(f) ==
    /\ IsDir(f, Root)
    /\ \A p \in DOMAIN f : p # Root => IsDir(f, Parent(p)[1])
WellFormed == TreeShaped(fs) /\ TreeShaped(pre)

(***************************************************************************)
(* Properties of copy_file                                                 *)
(***************************************************************************)
CopyOk == op.name = "copy_file" /\ op.res = "Ok"

\* the effective target of the last copy or move: destination/<base name of
\* source> when destination was a directory, else destination
EffectiveTarget == FinalDest(pre, op.src, op.dst)[1]

\* the k-th name of the sequence "{stem} (copy){ext}", "{stem} (copy 2){ext}", ...
Probe(name, k) == IF k = 1 THEN CopyName(name) ELSE CopyNameN(name, k)

\* the first name of that sequence that is free beside path in f (one of the
\* first |f| + 1 names is free)
FirstFree(f, path) ==
    LET parent == Parent(path)[1]
        name == FileName(path)[1]
        free == {k \in 1..(Cardinality(DOMAIN f) + 1) : ~Exists(f, Join(parent, Probe(name, k)))}
    IN Join(parent, Probe(name, CHOOSE k \in free : \A j \in free : k <= j))

\* "A (copy).txt", "A (copy 2).txt", "A (copy 3).txt"
NameACopy == <<65, 32, 40, 99, 111, 112, 121, 41, 46, 116, 120, 116>>
NameACopy2 == <<65, 32, 40, 99, 111, 112, 121, 32, 50, 41, 46, 116, 120, 116>>
NameACopy3 == <<65, 32, 40, 99, 111, 112, 121, 32, 51, 41, 46, 116, 120, 116>>

\* C1: a successful copy_file leaves every entry that existed before the call
\* in place with the same kind and content; whatever it changes is a path
\* that did not exist before.
C1_CopyNeverOverwrites ==
    CopyOk => \A p \in DOMAIN pre : Exists(fs, p) /\ fs[p] = pre[p]

\* a file was copied onto an existing file of different content: both are
\* still there and the copy went to a new path
C1_Witness ==
    /\ CopyOk
    /\ IsFile(pre, op.src)
    /\ IsFile(pre, op.dst)
    /\ pre[op.src].data # pre[op.dst].data
    /\ op.target # <<op.dst>>
    /\ ~Exists(pre, op.target[1])
    /\ IsFile(fs, op.target[1])

\* C2: a successful copy_file writes to the effective target when that path
\* was free, and otherwise to the first free name of "{stem} (copy){ext}",
\* "{stem} (copy 2){ext}", ... beside it; that path is new, and everything
\* the call added lies at or below it.  Copying A.txt into the directory
\* that holds it gives "A (copy).txt", then "A (copy 2).txt", then
\* "A (copy 3).txt".
C2_FirstFreeName ==
    CopyOk =>
        LET target == op.target[1] IN
        /\ target = IF Exists(pre, EffectiveTarget) THEN FirstFree(pre, EffectiveTarget)
                    ELSE EffectiveTarget
        /\ ~Exists(pre, target)
        /\ Exists(fs, target)
        /\ fs[target].dir = pre[op.src].dir
        /\ IsFile(pre, op.src) => fs[target].data = pre[op.src].data
        /\ \A p \in DOMAIN fs \ DOMAIN pre : IsPrefix(target, p) \/ IsPrefix(p, target)
        /\ (op.src = <<NameA>> /\ op.dst = Root) =>
              target = IF ~Exists(pre, <<NameACopy>>) THEN <<NameACopy>>
                       ELSE IF ~Exists(pre, <<NameACopy2>>) THEN <<NameACopy2>>
                       ELSE IF ~Exists(pre, <<NameACopy3>>) THEN <<NameACopy3>>
                       ELSE target

\* the third copy of A.txt in a row: the directory held A.txt, "A (copy).txt"
\* and "A (copy 2).txt", and now also "A (copy 3).txt", all with A.txt's content
C2_Witness ==
    /\ CopyOk
    /\ op.src = <<NameA>> /\ op.dst = Root
    /\ IsFile(pre, <<NameA>>) /\ pre[<<NameA>>].data # <<>>
    /\ \A n \in {NameACopy, NameACopy2} : IsFile(pre, <<n>>) /\ pre[<<n>>] = pre[<<NameA>>]
    /\ ~Exists(pre, <<NameACopy3>>)
    /\ op.target = <<(<<NameACopy3>>)>>
    /\ fs[<<NameACopy3>>] = pre[<<NameA>>]

\* the first n names of the sequence all existed beside the effective target
AllTaken(n) ==
    \A k \in 1..n :
        Exists(pre, Join(Parent(EffectiveTarget)[1], Probe(FileName(EffectiveTarget)[1], k)))

\* the lowest-numbered free name among the first n, as an option
LowestFree(n) ==
    LET parent == Parent(EffectiveTarget)[1]
        name == FileName(EffectiveTarget)[1]
        free == {k \in 1..n : ~Exists(pre, Join(parent, Probe(name, k)))}
    IN IF free = {} THEN <<>>
       ELSE <<Join(parent, Probe(name, CHOOSE k \in free : \A j \in free : k <= j))>>

\* copy_file was called with an existing source and its effective target existed
CopyCollided ==
    /\ op.name = "copy_file"
    /\ Exists(pre, op.src)
    /\ FinalDest(pre, op.src, op.dst) # <<>>
    /\ Exists(pre, EffectiveTarget)

\* "A (copy 1000).txt"
NameACopy1000 == <<65, 32, 40, 99, 111, 112, 121, 32, 49, 48, 48, 48, 41, 46, 116, 120, 116>>

\* C3 as claimed: the 1000 names "(copy)", "(copy 2)", ..., "(copy 1000)" are
\* probed: copy_file fails with TooManyCollisions only when all of them (and
\* the effective target) exist, uses the lowest free one when one of them is
\* free, and writes nothing when it fails so.
C3_AsClaimed ==
    /\ (op.name = "copy_file" /\ op.res = "TooManyCollisions") =>
            CopyCollided /\ AllTaken(CounterLimit) /\ fs = pre
    /\ (CopyCollided /\ ~AllTaken(CounterLimit)) =>
            op.res = "Ok" /\ op.target = LowestFree(CounterLimit)

\* C3 (amended): 999 names are probed, "(copy)", "(copy 2)", ...,
\* "(copy 999)": copy_file fails with TooManyCollisions exactly when the
\* effective target and all 999 of them exist ("(copy 1000)" is never
\* tested), and then writes nothing; when one of the 999 is free it does not
\* fail so and writes to the lowest free one.
C3_ProbesCapped ==
    /\ (op.name = "copy_file" /\ op.res = "TooManyCollisions") =>
            CopyCollided /\ AllTaken(CounterLimit - 1) /\ fs = pre
    /\ (CopyCollided /\ AllTaken(CounterLimit - 1)) => op.res = "TooManyCollisions"
    /\ (CopyCollided /\ ~AllTaken(CounterLimit - 1)) =>
            /\ op.res # "TooManyCollisions"
            /\ op.target = LowestFree(CounterLimit - 1)
            /\ Exists(fs, op.target[1])

\* the copy failed with TooManyCollisions although "A (copy 1000).txt" was free
C3_Witness ==
    /\ CopyCollided
    /\ op.res = "TooManyCollisions"
    /\ EffectiveTarget = <<NameA>>
    /\ ~Exists(pre, <<NameACopy1000>>)
    /\ fs = pre

\* the paths of the subtree at base, relative to base
Relative(f, base) == {SubSeq(q, Len(base) + 1, Len(q)) : q \in Subtree(f, base)}

\* the last command copied a directory into an existing directory that is
\* neither that directory nor inside it
DirCopyOutside ==
    /\ CopyOk
    /\ IsDir(pre, op.src)
    /\ IsDir(pre, op.dst)
    /\ ~IsPrefix(op.src, op.dst)

\* C4: a successful copy_file of a directory D into an existing directory
\* outside D makes the resolved target (inside the destination, named after
\* D or collision-resolved) a copy of D's subtree: the same relative paths,
\* each with the same kind and the same bytes, and nothing else.
C4_TreeReproduced ==
    DirCopyOutside =>
        LET target == op.target[1] IN
        /\ Parent(target) = <<op.dst>>
        /\ target = IF Exists(pre, EffectiveTarget) THEN FirstFree(pre, EffectiveTarget)
                    ELSE EffectiveTarget
        /\ Relative(fs, target) = Relative(pre, op.src)
        /\ \A r \in Relative(pre, op.src) : fs[target \o r] = pre[op.src \o r]

\* the copied directory held a non-empty file and a subdirectory
C4_Witness ==
    /\ DirCopyOutside
    /\ \E p, q \in Subtree(pre, op.src) :
          /\ IsFile(pre, p) /\ pre[p].data # <<>>
          /\ IsDir(pre, q) /\ q # op.src
    /\ Relative(fs, op.target[1]) = Relative(pre, op.src)

(***************************************************************************)
(* Properties of move_path, rename_path, create_file, create_directory,    *)
(* delete_path and path_exists                                             *)
(***************************************************************************)
\* move_path was called with an existing source and its final destination
\* (destination/<base name of source> for a directory destination, else
\* destination) existed
MoveCollided ==
    /\ op.name = "move_path"
    /\ Exists(pre, op.src)
    /\ FinalDest(pre, op.src, op.dst) # <<>>
    /\ Exists(pre, EffectiveTarget)

\* C5: when the final destination of move_path(S, dest) already exists, the
\* call fails with DestinationExists and the filesystem is exactly as before
\* (no other name is tried, S and the destination entry are untouched).
C5_MoveIsStrict ==
    MoveCollided => op.res = "DestinationExists" /\ fs = pre

\* a file was moved into a directory that holds a file of the same name and
\* other content
C5_Witness ==
    /\ MoveCollided
    /\ IsDir(pre, op.dst)
    /\ EffectiveTarget # op.src
    /\ IsFile(pre, op.src) /\ IsFile(pre, EffectiveTarget)
    /\ pre[op.src].data # pre[EffectiveTarget].data
    /\ op.res = "DestinationExists"

\* C6: rename_path(old, new) fails with SourceMissing when old does not
\* exist (also when new exists), else with DestinationExists when new
\* exists; in both cases the filesystem is exactly as before.
C6_RenameNeverOverwrites ==
    op.name = "rename_path" =>
        /\ ~Exists(pre, op.src) => op.res = "SourceMissing" /\ fs = pre
        /\ (Exists(pre, op.src) /\ Exists(pre, op.dst)) =>
                op.res = "DestinationExists" /\ fs = pre

\* a file was renamed onto another existing file of other content
C6_Witness ==
    /\ op.name = "rename_path"
    /\ op.src # op.dst
    /\ IsFile(pre, op.src) /\ IsFile(pre, op.dst)
    /\ pre[op.src].data # pre[op.dst].data
    /\ op.res = "DestinationExists"

\* C7: create_file(P) and create_directory(P) fail with AlreadyExists when P
\* exists, as a file or a directory, and leave the filesystem as it was; after
\* a successful create_file(P), P is an empty file and create_file(P) called
\* again fails with AlreadyExists and changes nothing.
C7_CreateNotIdempotent ==
    /\ (op.name \in {"create_file", "create_directory"} /\ Exists(pre, op.src)) =>
            op.res = "AlreadyExists" /\ fs = pre
    /\ (op.name = "create_file" /\ op.res = "Ok") =>
            /\ ~Exists(pre, op.src)
            /\ IsFile(fs, op.src) /\ fs[op.src].data = <<>>
            /\ create_file(fs, op.src).res = "AlreadyExists"
            /\ create_file(fs, op.src).fs = fs

\* create_file was called on an existing file with content
C7_Witness ==
    /\ op.name = "create_file"
    /\ IsFile(pre, op.src) /\ pre[op.src].data # <<>>
    /\ op.res = "AlreadyExists"
    /\ fs = pre

\* C8: path_exists(P) is true for an existing P; after a successful
\* delete_path(P), path_exists is false for P and for everything that was
\* below P, and every other entry is as before; delete_path of a missing
\* path fails with NotFound and changes nothing.
C8_DeleteRemovesSubtree ==
    /\ (op.name = "path_exists" /\ Exists(pre, op.src)) => ret = <<TRUE>>
    /\ (op.name = "delete_path" /\ op.res = "Ok") =>
            /\ \A q \in Subtree(pre, op.src) : path_exists(fs, q).val = <<FALSE>>
            /\ \A q \in DOMAIN pre \ Subtree(pre, op.src) : Exists(fs, q) /\ fs[q] = pre[q]
            /\ DOMAIN fs \subseteq DOMAIN pre
    /\ (op.name = "delete_path" /\ ~Exists(pre, op.src)) => op.res = "NotFound" /\ fs = pre

\* a directory with a subdirectory in it was deleted
C8_Witness ==
    /\ op.name = "delete_path" /\ op.res = "Ok"
    /\ \E q \in Subtree(pre, op.src) : q # op.src /\ IsDir(pre, q)
    /\ ~Exists(fs, op.src)

(***************************************************************************)
(* Properties of read_directory                                            *)
(***************************************************************************)
ListingOk == op.name = "read_directory" /\ op.res = "Ok"

\* a is at most b in the lexicographic order of byte strings
LexLeq(a, b) ==
    \/ Len(a) <= Len(b) /\ \A i \in 1..Len(a) : a[i] = b[i]
    \/ \E k \in 1..Len(a) :
          /\ k <= Len(b)
          /\ a[k] < b[k]
          /\ \A i \in 1..(k - 1) : a[i] = b[i]

\* directories before files; directories among themselves and files among
\* themselves in ascending order of the lower-cased names
Ordered(list) ==
    \A i, j \in 1..Len(list) :
        i < j =>
            /\ ~(~list[i].is_directory /\ list[j].is_directory)
            /\ list[i].is_directory = list[j].is_directory =>
                    LexLeq(ToLowercase(list[i].name), ToLowercase(list[j].name))

\* the list and every children list below it are ordered
RECURSIVE OrderedDeep(_)
OrderedDeep(list) ==
    /\ Ordered(list)
    /\ \A i \in 1..Len(list) :
          list[i].children # <<>> => OrderedDeep(list[i].children[1])

\* C9: in the list read_directory returns, and in every nested children
\* list, all directories precede all files, and the directories and the
\* files are each in ascending order of their lower-cased names.
C9_ListingOrdered ==
    ListingOk => OrderedDeep(ret)

\* a listing of a directory and two files whose order by lower-cased name is
\* the reverse of their order by name
C9_Witness ==
    /\ ListingOk
    /\ Len(ret) = 3
    /\ ret[1].is_directory /\ ~ret[2].is_directory /\ ~ret[3].is_directory
    /\ ~LexLeq(ret[2].name, ret[3].name)

\* list has exactly one node per entry of directory dir of f, each of the
\* shape of a FileNode: size exactly on files, children exactly on
\* directories when recursive, and then the listing of that directory
RECURSIVE WellShaped(_, _, _, _)
WellShaped(f, list, dir, recursive) ==
    /\ Len(list) = Cardinality(ChildrenOf(f, dir))
    /\ {list[i].path : i \in 1..Len(list)} = ChildrenOf(f, dir)
    /\ \A i \in 1..Len(list) :
          LET n == list[i] IN
          /\ n.name = n.path[Len(n.path)]
          /\ n.is_directory = f[n.path].dir
          /\ (n.size # <<>>) = ~n.is_directory
          /\ ~n.is_directory => n.size = <<Len(f[n.path].data)>>
          /\ (n.children # <<>>) = (n.is_directory /\ recursive)
          /\ n.children # <<>> => WellShaped(f, n.children[1], n.path, recursive)

\* C10: every FileNode read_directory(path, recursive) returns has size
\* exactly when it is a file and children exactly when it is a directory and
\* recursive is true, the children being the complete listing of that
\* directory (an empty list for an empty directory); the returned list has
\* exactly one node per entry of path.
C10_NodeShape ==
    ListingOk => WellShaped(pre, ret, op.src, op.recursive)

\* a recursive listing with an empty directory (children present and empty),
\* a non-empty directory and a file with content
C10_Witness ==
    /\ ListingOk
    /\ op.recursive
    /\ \E i, j \in 1..Len(ret) :
          /\ ret[i].children = << <<>> >>
          /\ ret[j].children # <<>> /\ ret[j].children # << <<>> >>
    /\ \E i \in 1..Len(ret) : ret[i].is_directory /\ ret[i].children # <<>>
          /\ \E k \in 1..Len(ret[i].children[1]) :
                ret[i].children[1][k].size \notin {<<>>, <<0>>}

(***************************************************************************)
(* Properties of write_file_binary and read_file_binary                    *)
(***************************************************************************)
\* the byte sequences of which a string is the base64
BytesOf == [data \in EncodedContents |-> {b \in BinaryContents : Base64Of[b] = data}]

\* the last command was write_file_binary(P, base64(bytes)) for a path P the
\* filesystem accepts that was a file or did not exist, with no file among
\* its ancestors
BinaryWritten ==
    /\ op.name = "write_file_binary"
    /\ op.data \in EncodedContents
    /\ op.src # Root /\ Len(op.src) <= MaxDepth
    /\ ~IsDir(pre, op.src)
    /\ \A q \in Prefixes(op.src, 0, Len(op.src) - 1) : ~IsFile(pre, q)

\* C11: write_file_binary(P, base64(bytes)) succeeds whether or not P's parent
\* directories exist and whether or not P already is a file; afterwards P is a
\* file holding exactly bytes (nothing of an earlier content remains), and
\* read_file_binary(P) on the resulting filesystem succeeds with a base64
\* string that decodes to exactly bytes.  Any successful read_file_binary
\* returns a string that decodes to the content of the file.
C11_BinaryRoundTrip ==
    /\ BinaryWritten =>
          \A bytes \in BytesOf[op.data] :
              /\ op.res = "Ok"
              /\ IsFile(fs, op.src) /\ fs[op.src].data = bytes
              /\ read_file_binary(fs, op.src).res = "Ok"
              /\ Base64Decode(read_file_binary(fs, op.src).val) = <<bytes>>
    /\ (op.name = "read_file_binary" /\ op.res = "Ok") =>
          /\ IsFile(fs, op.src)
          /\ Base64Decode(ret) = <<fs[op.src].data>>
          /\ fs = pre

\* a file of four bytes was replaced by one (padded) byte
C11_Witness ==
    /\ BinaryWritten
    /\ <<77>> \in BytesOf[op.data]
    /\ IsFile(pre, op.src) /\ Len(pre[op.src].data) = 4
    /\ op.res = "Ok"
    /\ fs[op.src].data = <<77>>
    /\ read_file_binary(fs, op.src).val = <<84, 81, 61, 61>>

(***************************************************************************)
(* Properties of a successful move_path                                    *)
(***************************************************************************)
MoveOk == op.name = "move_path" /\ op.res = "Ok"

\* C12: a successful move_path(S, dest) has as final destination
\* dest/<base name of S> when dest was a directory and dest otherwise, a path
\* that did not exist (no collision-resolved name is used); afterwards S and
\* its subtree are gone, the final destination holds exactly what S held
\* (same relative paths, kinds and bytes), every other entry is unchanged,
\* and the only other additions are directories above the final destination.
C12_MoveRelocates ==
    MoveOk =>
        LET target == op.target[1] IN
        /\ target = IF IsDir(pre, op.dst) THEN Join(op.dst, FileName(op.src)[1]) ELSE op.dst
        /\ ~Exists(pre, target)
        /\ Subtree(fs, op.src) = {}
        /\ Relative(fs, target) = Relative(pre, op.src)
        /\ \A r \in Relative(pre, op.src) : fs[target \o r] = pre[op.src \o r]
        /\ \A p \in DOMAIN pre \ Subtree(pre, op.src) : Exists(fs, p) /\ fs[p] = pre[p]
        /\ \A p \in DOMAIN fs \ DOMAIN pre :
              \/ IsPrefix(target, p)
              \/ IsPrefix(p, target) /\ fs[p] = DirEntry

\* a directory holding a non-empty file was moved to a path whose parent
\* directory did not exist
C12_Witness ==
    /\ MoveOk
    /\ IsDir(pre, op.src)
    /\ \E q \in Subtree(pre, op.src) : IsFile(pre, q) /\ pre[q].data # <<>>
    /\ ~Exists(pre, Parent(op.target[1])[1])
    /\ IsDir(fs, Parent(op.target[1])[1])
    /\ ~IsDir(pre, op.dst)

(***************************************************************************)
(* Properties of a failing move_path or copy_file                          *)
(***************************************************************************)
\* the last command was a move_path or copy_file of an existing source below
\* the root that returned a failure
TransferFailed ==
    /\ op.name \in {"move_path", "copy_file"}
    /\ op.res # "Ok"
    /\ op.src # Root
    /\ Exists(pre, op.src)

\* C13: when move_path(S, dest) or copy_file(S, dest) returns a failure, S and
\* every entry of S's subtree are still there with the same kind and bytes,
\* and nothing was added inside S, wherever dest lies.
C13_SourceUntouched ==
    TransferFailed =>
        /\ Subtree(fs, op.src) = Subtree(pre, op.src)
        /\ \A p \in Subtree(pre, op.src) : fs[p] = pre[p]

(***************************************************************************)
(* Properties of a recursive copy under an I/O failure                     *)
(***************************************************************************)
\* the filesystem calls of a recursive copy of src (a directory of f) to dest
\* in the order they are made, when the entries of the directories are
\* yielded in the order ord: for every directory the creation of its copy and
\* the reading of its entries, for every file its copy
RECURSIVE VisitDir(_, _, _, _), VisitEntries(_, _, _, _)
VisitDir(f, src, dest, ord) ==
    <<[call |-> "create_dir_all", from |-> src, to |-> dest],
      [call |-> "read_dir", from |-> src, to |-> dest]>>
        \o VisitEntries(f, ReadDir(f, src, ord), dest, ord)

VisitEntries(f, entries, dest, ord) ==
    IF entries = <<>> THEN <<>>
    ELSE LET to == Join(dest, FileName(Head(entries))[1]) IN
         (IF IsDir(f, Head(entries)) THEN VisitDir(f, Head(entries), to, ord)
          ELSE <<[call |-> "copy", from |-> Head(entries), to |-> to]>>)
             \o VisitEntries(f, Tail(entries), dest, ord)

\* the calls of the last command, a copy_file of a directory that resolved a
\* target outside the source
Visits == VisitDir(pre, op.src, op.target[1], op.ord)

\* the last command was a copy_file of a directory to a target outside it,
\* none of whose calls fails by itself (the parent of the target exists, no
\* path is too long), hit by an I/O failure of the environment
FaultyDirCopy ==
    /\ op.name = "copy_file"
    /\ op.io # <<>>
    /\ IsDir(pre, op.src)
    /\ op.target # <<>>
    /\ ~IsPrefix(op.src, op.target[1])
    /\ IsDir(pre, Parent(op.target[1])[1])
    /\ \A i \in 1..Len(Visits) : Len(Visits[i].to) <= MaxDepth

\* C14: when the n+1-st filesystem call of a recursive copy fails, copy_file
\* returns the failure; what the n calls before it wrote is still there (the
\* directories created, the files copied with their bytes), nothing that a
\* later call would have written exists, and every entry that existed
\* before is unchanged.  When the copy makes no more than n calls it succeeds.
C14_FirstFailureAborts ==
    FaultyDirCopy =>
        LET n == op.io[1] IN
        /\ op.res = IF n < Len(Visits) THEN "IOFailure" ELSE "Ok"
        /\ \A i \in 1..Len(Visits) :
              LET v == Visits[i] IN
              IF i <= n
              THEN Exists(fs, v.to) /\ fs[v.to] = pre[v.from]
              ELSE i > n + 1 /\ v.call # "read_dir" => ~Exists(fs, v.to)
        /\ \A p \in DOMAIN pre : Exists(fs, p) /\ fs[p] = pre[p]
        /\ \A p \in DOMAIN fs \ DOMAIN pre : \E i \in 1..Len(Visits) : Visits[i].to = p

\* the reading of a subdirectory failed after its copy had been created and
\* before a file was copied: the copy of the subdirectory is at the target,
\* the file is not
C14_Witness ==
    /\ FaultyDirCopy
    /\ op.res = "IOFailure"
    /\ \E i, j, k \in 1..Len(Visits) :
          /\ 1 < i /\ i < j /\ j < k /\ j = op.io[1] + 1
          /\ Visits[i].call = "create_dir_all" /\ Visits[j].call = "read_dir"
          /\ Visits[k].call = "copy"
          /\ IsDir(fs, Visits[i].to)
          /\ pre[Visits[k].from].data # <<>>
          /\ ~Exists(fs, Visits[k].to)

(***************************************************************************)
(* Properties of the collision names of directories                        *)
(***************************************************************************)
\* "a (copy).b", "a (copy 2).b", "a.b (copy)", "a.b (copy 2)"
NameABCopy == <<97, 32, 40, 99, 111, 112, 121, 41, 46, 98>>
NameABCopy2 == <<97, 32, 40, 99, 111, 112, 121, 32, 50, 41, 46, 98>>
NameABAppended == <<97, 46, 98, 32, 40, 99, 111, 112, 121, 41>>
NameABAppended2 == <<97, 46, 98, 32, 40, 99, 111, 112, 121, 32, 50, 41>>

\* the last command was a successful copy_file whose effective target a.b
\* (in the root) existed
CopiedOntoAB == CopyOk /\ EffectiveTarget = <<NameAB>> /\ Exists(pre, <<NameAB>>)

\* C15 as claimed: a colliding directory a.b is resolved to "a.b (copy)", then
\* "a.b (copy 2)" (stem the whole name, no extension), a colliding file a.b
\* to "a (copy).b".
C15_AsClaimed ==
    CopiedOntoAB =>
        IF IsDir(pre, <<NameAB>>)
        THEN op.target = IF ~Exists(pre, <<NameABAppended>>) THEN <<(<<NameABAppended>>)>>
                         ELSE IF ~Exists(pre, <<NameABAppended2>>)
                              THEN <<(<<NameABAppended2>>)>>
                              ELSE op.target
        ELSE ~Exists(pre, <<NameABCopy>>) => op.target = <<(<<NameABCopy>>)>>

\* C15 (amended): the collision name of a directory is split at the last dot
\* as that of a file is: a colliding a.b, directory or file, is resolved to
\* "a (copy).b", then "a (copy 2).b"; in general a colliding directory is
\* resolved to the first free of "{stem} (copy){ext}", "{stem} (copy 2){ext}", ...
\* with the stem and extension Path::file_stem and Path::extension give.
C15_SameSplitForDirectories ==
    /\ CopiedOntoAB =>
          op.target = IF ~Exists(pre, <<NameABCopy>>) THEN <<(<<NameABCopy>>)>>
                      ELSE IF ~Exists(pre, <<NameABCopy2>>) THEN <<(<<NameABCopy2>>)>>
                      ELSE op.target
    /\ (CopyOk /\ IsDir(pre, EffectiveTarget)) =>
          op.target = <<FirstFree(pre, EffectiveTarget)>>

\* the directory a.b was copied beside itself and "a (copy).b": the copy is
\* the directory "a (copy 2).b"
C15_Witness ==
    /\ CopiedOntoAB
    /\ IsDir(pre, <<NameAB>>)
    /\ op.src = <<NameAB>>
    /\ Exists(pre, <<NameABCopy>>)
    /\ op.target = <<(<<NameABCopy2>>)>>
    /\ IsDir(fs, <<NameABCopy2>>)

(***************************************************************************)
(* Properties of the traversal of a recursive copy                         *)
(***************************************************************************)
\* the last command was a copy_file of a directory below the root, without
\* I/O failure, that resolved a target for which a copy of the original
\* subtree is within what the filesystem accepts: no path of the copy is
\* too long and no ancestor of the target is a file
DirCopyFits ==
    /\ op.name = "copy_file"
    /\ op.io = <<>>
    /\ op.src # Root
    /\ IsDir(pre, op.src)
    /\ op.target # <<>>
    /\ \A r \in Relative(pre, op.src) : Len(op.target[1] \o r) <= MaxDepth
    /\ \A q \in Prefixes(op.target[1], 0, Len(op.target[1])) : ~IsFile(pre, q)

\* C16: such a copy succeeds after visiting every entry of the original
\* subtree of D once, also when the target lies inside D: the target holds
\* exactly the relative paths D held before the call (not the directories
\* the copy itself created), with the same kind and bytes.
C16_CopyVisitsOriginalOnce ==
    DirCopyFits =>
        /\ op.res = "Ok"
        /\ Relative(fs, op.target[1]) = Relative(pre, op.src)
        /\ \A r \in Relative(pre, op.src) : fs[op.target[1] \o r] = pre[op.src \o r]

(***************************************************************************)
(* Properties of concurrent copies                                         *)
(***************************************************************************)
\* the calls i and j have both returned success for the same final path
SameFinalPath(i, j) ==
    /\ i # j
    /\ calls[i].pc = "done" /\ calls[i].res = "Ok"
    /\ calls[j].pc = "done" /\ calls[j].res = "Ok"
    /\ calls[i].target_path = calls[j].target_path

\* C17: two copy_file calls that run one after the other (neither makes a
\* filesystem call between the first and the last one of the other) and both
\* succeed have written to two distinct final paths; the existence checks
\* being not atomic with the write, two calls whose filesystem calls
\* interleave can resolve the same final path and both succeed, one
\* overwriting what the other wrote (C17_Witness is such an execution).
C17_SequentialCopiesDistinct ==
    \A i, j \in DOMAIN calls :
        SameFinalPath(i, j) => j \in calls[i].overlapped /\ i \in calls[j].overlapped

\* two calls with different sources and the same colliding destination
\* A.txt both resolved "A (copy).txt" and both returned success; the file holds
\* the bytes of only one of the two sources
C17_Witness ==
    \E i, j \in DOMAIN calls :
        /\ SameFinalPath(i, j)
        /\ calls[i].source = <<NameA>> /\ calls[j].source = <<NameAB>>
        /\ calls[i].destination = <<NameA>> /\ calls[j].destination = <<NameA>>
        /\ calls[i].target_path = <<NameACopy>>
        /\ fs[<<NameA>>].data # fs[<<NameAB>>].data
        /\ fs[<<NameACopy>>].data = fs[<<NameAB>>].data
        /\ fs[<<NameA>>] = pre[<<NameA>>]
====
